---- MODULE Spec2Model ----
(***************************************************************************)
(* Model of the istSOS metadata connector: the signature function and the  *)
(* incremental reconciler of app/harvester.py, and the harvest pass of     *)
(* app/api.py (refresh_metadata) and of the command line (main).           *)
(*                                                                         *)
(* Specifications: SpecRec (the reconciler alone), SpecSig (the signature  *)
(* function), SpecPass (harvest passes one after the other, on real        *)
(* records), SpecMalformed (the same passes over files found malformed),   *)
(* SpecCrash (the incremental passes, with the process killed between the  *)
(* state-file write and the records-file write), SpecLoc                   *)
(* (_extract_location), SpecProj (the STAC and DCAT projectors), SpecApi   *)
(* (the threads of the service, the lock and the clock, with the content   *)
(* of a file kept as the number of the pass that wrote it), SpecApiFair    *)
(* (the endpoints' calls of SpecApi with the threads scheduled).           *)
(*                                                                         *)
(* JSON values are modelled as [t |-> type, x |-> text]: an integer by its *)
(* decimal text, a string by its characters, None by the text "None".      *)
(* A dict is the sequence of its items in insertion order; an object is a  *)
(* dict together with the reference (identity) of the Python object.       *)
(***************************************************************************)
EXTENDS Integers, Sequences, FiniteSets, TLC

\* ---------------------------------------------------------------- bounds
\* longest list of freshly fetched records / of previous records
MaxRecords == 2
\* longest list of records one fetch of a harvest pass returns
MaxFetch == 1
\* the largest reading of time.time(); the process starts at time 1. In the
\* passes run one after the other the clock advances by one with every
\* completed pass of the service; among the threads it advances on its own
MaxClock == 4
\* the threads that call into the serving layer
NumCallers == 2
\* the harvest passes of the threads whose fetch succeeds
MaxHarvests == 2
\* config["harvest_interval_seconds"], in ticks of the clock
harvest_interval_seconds == 2
\* longest `coordinates` list of a drawn geometry
MaxCoords == 3

\* ---------------------------------------------------------------- values
None == [t |-> "null", x |-> "None"]
IntVal(text) == [t |-> "int", x |-> text]
FloatVal(text) == [t |-> "float", x |-> text]
BoolVal(text) == [t |-> "bool", x |-> text]
\* a record's location {"lat": lat, "lon": lon}
LocVal(lat, lon) == [t |-> "dict", x |-> "", lat |-> lat, lon |-> lon]
StrVal(text) == [t |-> "str", x |-> text]

\* datastream_id values the upstream service assigns: 1 and 2, or none
IdValues == {None, IntVal("1"), IntVal("2")}
ContentValues == {StrVal("a"), StrVal("b")}

\* field names in the order sort_keys=True puts them
FieldOrder == <<"datastream_id", "description">>

Item(name, value) == [k |-> name, v |-> value]

\* a record with an identity key: {"datastream_id": id, "description": c}
\* (the other thirteen fields of a record are left out: they are plain
\* content like the description)
Keyed(id, c) == <<Item("datastream_id", id), Item("description", c)>>
KeyedDicts ==
    {Keyed(IntVal("1"), StrVal("a")), Keyed(IntVal("1"), StrVal("b")),
     Keyed(IntVal("2"), StrVal("a"))}

\* what a fetch can hold: the normalizer always sets the key, None included
FetchedDicts == KeyedDicts \cup {Keyed(None, StrVal("a"))}

\* what a records file can hold: also a record whose key is missing
StoredDicts == KeyedDicts \cup {<<Item("description", StrVal("a"))>>}

\* dict.get(name): the value, None when the key is missing
dict_get(d, name) ==
    IF \E i \in 1..Len(d) : d[i].k = name
    THEN d[CHOOSE i \in 1..Len(d) : d[i].k = name].v
    ELSE None

\* str(value)
py_str(value) == value.x

\* json.dumps of a scalar: strings are quoted, None is null
json_scalar(value) ==
    IF value.t = "str" THEN "\"" \o value.x \o "\""
    ELSE IF value.t = "null" THEN "null"
    ELSE value.x

\* the items of dict d whose keys are FieldOrder[n..], joined by ", "
RECURSIVE json_items(_, _, _)
json_items(d, n, first) ==
    IF n > Len(FieldOrder) THEN ""
    ELSE IF \E i \in 1..Len(d) : d[i].k = FieldOrder[n]
         THEN (IF first THEN "" ELSE ", ")
              \o "\"" \o FieldOrder[n] \o "\": "
              \o json_scalar(dict_get(d, FieldOrder[n]))
              \o json_items(d, n + 1, FALSE)
         ELSE json_items(d, n + 1, first)

\* json.dumps(d, sort_keys=True)
json_dumps_sorted(d) == "{" \o json_items(d, 1, TRUE) \o "}"

\* record_signature with the keys left in insertion order (sort_keys lost)
RECURSIVE json_items_unsorted(_, _)
json_items_unsorted(d, i) ==
    IF i > Len(d) THEN ""
    ELSE (IF i = 1 THEN "" ELSE ", ")
         \o "\"" \o d[i].k \o "\": " \o json_scalar(d[i].v)
         \o json_items_unsorted(d, i + 1)

record_signature_unsorted(record) ==
    "{" \o json_items_unsorted(record.d, 1) \o "}"

\* harvester.record_signature
record_signature(record) == json_dumps_sorted(record.d)

\* ---------------------------------------------------------------- objects
\* a Python dict object: its identity and its items
Obj(ref, d) == [ref |-> ref, d |-> d]
Ref(src, idx) == [src |-> src, idx |-> idx]

\* a list of dicts as a list of distinct objects created by `src`
Objects(src, ds) == [i \in 1..Len(ds) |-> Obj(Ref(src, i), ds[i])]

\* record.get("datastream_id")
datastream_id_of(record) == dict_get(record.d, "datastream_id")
HasKey(record) == datastream_id_of(record) # None
KeyOf(record) == py_str(datastream_id_of(record))

\* ------------------------------------------------------------- reconciler
EmptyMap == [k \in {} |-> ""]
Put(map, key, value) == (key :> value) @@ map

\* lines 109-113: previous_by_id after the first n previous records
RECURSIVE index_previous(_, _)
index_previous(previous_records, n) ==
    IF n = 0 THEN EmptyMap
    ELSE LET by_id == index_previous(previous_records, n - 1)
             record == previous_records[n]
         IN IF HasKey(record)
            THEN Put(by_id, KeyOf(record), record)
            ELSE by_id

previous_by_id_of(previous_records) ==
    index_previous(previous_records, Len(previous_records))

\* line 130 comparing keys only
is_unchanged_by_key(key, current_signature, previous_by_id, previous_signatures) ==
    /\ key \in DOMAIN previous_signatures
    /\ key \in DOMAIN previous_by_id

\* lines 128-130: old_signature == current_signature and key in previous_by_id
\* (previous_signatures.get(key) is None for a missing key, never a signature)
is_unchanged(key, current_signature, previous_by_id, previous_signatures) ==
    /\ key \in DOMAIN previous_signatures
    /\ previous_signatures[key] = current_signature
    /\ key \in DOMAIN previous_by_id

\* the accumulators of lines 115-119
NewAcc == [final_records |-> <<>>, signatures |-> EmptyMap,
           created |-> 0, updated |-> 0, unchanged |-> 0]

\* lines 131-132 emitting the fetched object for an unchanged record
take_unchanged_current(acc, record, previous_by_id) ==
    [acc EXCEPT !.final_records = Append(@, record),
                !.unchanged = @ + 1]

\* lines 131-132
take_unchanged(acc, record, previous_by_id) ==
    [acc EXCEPT !.final_records = Append(@, previous_by_id[KeyOf(record)]),
                !.unchanged = @ + 1]

\* lines 134-138 with the emitted record put in front of the list
take_current_in_front(acc, record, previous_signatures) ==
    IF KeyOf(record) \in DOMAIN previous_signatures
    THEN [acc EXCEPT !.final_records = <<record>> \o @, !.updated = @ + 1]
    ELSE [acc EXCEPT !.final_records = <<record>> \o @, !.created = @ + 1]

\* lines 134-138 counting unchanged a record whose signature is the stored one
take_current_signature_unchanged(acc, record, previous_signatures) ==
    IF KeyOf(record) \in DOMAIN previous_signatures
    THEN IF previous_signatures[KeyOf(record)] = record_signature(record)
         THEN [acc EXCEPT !.final_records = Append(@, record), !.unchanged = @ + 1]
         ELSE [acc EXCEPT !.final_records = Append(@, record), !.updated = @ + 1]
    ELSE [acc EXCEPT !.final_records = Append(@, record), !.created = @ + 1]

\* lines 134-138
take_current(acc, record, previous_signatures) ==
    IF KeyOf(record) \in DOMAIN previous_signatures
    THEN [acc EXCEPT !.final_records = Append(@, record), !.updated = @ + 1]
    ELSE [acc EXCEPT !.final_records = Append(@, record), !.created = @ + 1]

\* line 140 keeping the first signature written for a key
store_signature_first(acc, key, current_signature) ==
    IF key \in DOMAIN acc.signatures THEN acc
    ELSE [acc EXCEPT !.signatures = Put(@, key, current_signature)]

\* line 140: signatures[key] = current_signature
store_signature(acc, key, current_signature) ==
    [acc EXCEPT !.signatures = Put(@, key, current_signature)]

\* lines 122-140 with line 140 inside the else branch: only a record that
\* is emitted afresh gets its signature stored
harvest_record_sign_changed_only(acc, record, previous_by_id, previous_signatures) ==
    IF ~HasKey(record) THEN acc
    ELSE LET key == KeyOf(record)
             current_signature == record_signature(record)
         IN IF is_unchanged(key, current_signature, previous_by_id,
                            previous_signatures)
            THEN take_unchanged(acc, record, previous_by_id)
            ELSE store_signature(take_current(acc, record, previous_signatures),
                                 key, current_signature)

\* lines 122-140 without the `continue` of lines 123-124
harvest_record_no_drop(acc, record, previous_by_id, previous_signatures) ==
    LET key == KeyOf(record)
        current_signature == record_signature(record)
    IN store_signature(take_current(acc, record, previous_signatures),
                       key, current_signature)

\* lines 122-140: one iteration of the loop over current_records
harvest_record(acc, record, previous_by_id, previous_signatures) ==
    IF ~HasKey(record) THEN acc
    ELSE LET key == KeyOf(record)
             current_signature == record_signature(record)
         IN store_signature(
                IF is_unchanged(key, current_signature, previous_by_id,
                                previous_signatures)
                THEN take_unchanged(acc, record, previous_by_id)
                ELSE take_current(acc, record, previous_signatures),
                key, current_signature)

\* lines 116-140 with the new signature map started from the previous one
\* (signatures = dict(previous_signatures)), so that vanished keys stay
RECURSIVE harvest_loop_keep_signatures(_, _, _, _)
harvest_loop_keep_signatures(current_records, n, previous_by_id, previous_signatures) ==
    IF n = 0 THEN [NewAcc EXCEPT !.signatures = previous_signatures]
    ELSE harvest_record(
             harvest_loop_keep_signatures(current_records, n - 1, previous_by_id,
                                          previous_signatures),
             current_records[n], previous_by_id, previous_signatures)

\* lines 121-140: the accumulators after the first n current records
RECURSIVE harvest_loop(_, _, _, _)
harvest_loop(current_records, n, previous_by_id, previous_signatures) ==
    IF n = 0 THEN NewAcc
    ELSE harvest_record(
             harvest_loop(current_records, n - 1, previous_by_id,
                          previous_signatures),
             current_records[n], previous_by_id, previous_signatures)

\* lines 142-147 with total counted over the fetched records
make_stats_total_fetched(acc, current_records) ==
    [created |-> acc.created, updated |-> acc.updated,
     unchanged |-> acc.unchanged, total |-> Len(current_records)]

\* lines 142-147
make_stats(acc, current_records) ==
    [created |-> acc.created, updated |-> acc.updated,
     unchanged |-> acc.unchanged, total |-> Len(acc.final_records)]

\* harvester.apply_incremental_harvest
apply_incremental_harvest(current_records, previous_records, previous_signatures) ==
    LET acc == harvest_loop(current_records, Len(current_records),
                            previous_by_id_of(previous_records),
                            previous_signatures)
    IN [final_records |-> acc.final_records,
        signatures |-> acc.signatures,
        stats |-> make_stats(acc, current_records)]

\* ------------------------------------------------ inputs of the reconciler
Lists(S, n) == UNION {[1..m -> S] : m \in 0..n}
Keys == {py_str(id) : id \in IdValues \ {None}}

\* the signature maps a state file written by line 140 can hold: each key
\* with the signature of some record of that key
Signatures == {json_dumps_sorted(Keyed(id, c)) : id \in IdValues \ {None}, c \in ContentValues}
SignaturesOf(key) ==
    {json_dumps_sorted(Keyed(id, c)) :
        id \in {i \in IdValues \ {None} : py_str(i) = key}, c \in ContentValues}
SignatureMaps ==
    {m \in UNION {[K -> Signatures] : K \in SUBSET Keys} :
        \A k \in DOMAIN m : m[k] \in SignaturesOf(k)}

\* the lists of at most MaxRecords distinct objects a fetch / a file gives
FetchedLists == {Objects("cur", ds) : ds \in Lists(FetchedDicts, MaxRecords)}
StoredLists == {Objects("prev", ds) : ds \in Lists(StoredDicts, MaxRecords)}

NoResult == [final_records |-> <<>>, signatures |-> EmptyMap,
             stats |-> [created |-> 0, updated |-> 0, unchanged |-> 0, total |-> 0]]

VARIABLES
    \* --- two calls of the reconciler on drawn inputs
    pc,         \* "start", "harvested" (one call made), "rerun" (two calls made)
    cur,        \* current_records
    prev,       \* previous_records of the first call
    prev_sigs,  \* previous_signatures of the first call
    out1,       \* what the first call returned
    out2,       \* what the second call returned
    \* --- the signature function on two drawn records
    sig_pc,     \* "start", "signed"
    rec_a, rec_b,
    sig_a, sig_b,
    \* --- harvest passes of one deployment, one after the other
    cfg,            \* entry point and configuration: entry, incremental,
                    \* output (--output given), catalogs (--stac-output and
                    \* --dcat-output given)
    pass_pc,        \* where the running pass is; "idle" between passes
    pass_result,    \* "none" while running, then "ok" or "error"
    records,        \* the local `records`
    fetched,        \* what collect_metadata returned to this pass
    pass_stats,     \* the stats the reconciler returned to this pass
    io_log,         \* the file reads and writes of this pass
    records_file,   \* metadata_output / --output
    state_file,     \* state_file / --state-file
    stac_file,      \* stac_output
    dcat_file,      \* dcat_output
    last_stats,     \* api._LAST_INCREMENTAL_STATS: <<>> for {}, else <<stats>>
    hist_last,      \* the keyed dicts of the fetch of the last completed pass
    hist_before,    \* the keyed dicts of the fetches of the completed passes before it
    hist_interrupted,   \* whether a pass has been interrupted during its writes
    \* --- the time of the serving process
    clock,             \* what time.time() returns now
    last_refresh_ts,   \* api._LAST_REFRESH_TS: 0 for 0.0, never refreshed
    \* --- _extract_location on a drawn thing
    loc_pc,     \* "start", "extracted"
    thing,      \* thing.get("Locations") or [] of the argument
    location,   \* what the call returned, or that it raised
    \* --- the two projectors on a drawn record list
    proj_pc,        \* "start", "projected"
    proj_records,   \* the argument
    stac,           \* the features of build_stac_item_collection
    dcat,           \* the datasets of build_dcat_catalog
    \* --- the threads of the serving process
    api_pc,     \* per thread: where it is in its request
    api_force,  \* per thread: the `force` argument of its refresh_metadata call
    api_now,    \* per thread: the local `now` at which it found the cache fresh
    api_ret,    \* per thread: the line at which its refresh_metadata call ended
    api_resp,   \* per thread: how its call ended: "none" yet, "ok" with the
                \* content of a file, or "error" with HTTP status 502
    lock,       \* api._LOCK: 0 when free, else the thread holding it
    api_files,  \* per output file: the number of the pass that wrote it, 0 if none
    api_stats,  \* _LAST_INCREMENTAL_STATS: the number of the pass that set it
    harvests    \* the passes whose fetch succeeded so far

rec_vars == <<pc, cur, prev, prev_sigs, out1, out2>>
sig_vars == <<sig_pc, rec_a, rec_b, sig_a, sig_b>>
file_vars == <<records_file, state_file, stac_file, dcat_file>>
hist_vars == <<hist_last, hist_before, hist_interrupted>>
pass_vars == <<cfg, pass_pc, pass_result, records, fetched, pass_stats, io_log,
               file_vars, last_stats, hist_vars>>
time_vars == <<clock, last_refresh_ts>>
loc_vars == <<loc_pc, thing, location>>
proj_vars == <<proj_pc, proj_records, stac, dcat>>
fn_vars == <<loc_vars, proj_vars>>
api_vars == <<api_pc, api_force, api_now, api_ret, api_resp, lock, api_files,
              api_stats, harvests>>
vars == <<rec_vars, sig_vars, pass_vars, time_vars, fn_vars, api_vars>>

\* ------------------------------------------------ location extraction
\* isinstance(value, (int, float)): bool is a subclass of int
is_number(value) == value.t \in {"int", "float", "bool"}

\* float(value) of a number
py_float(value) ==
    CASE value.t = "int" -> FloatVal(value.x \o ".0")
      [] value.t = "bool" -> FloatVal(IF value.x = "True" THEN "1.0" ELSE "0.0")
      [] OTHER -> value

\* the `coordinates` member of a geometry: absent or not a list, or a list
NoCoordinates == [is_list |-> FALSE, items |-> <<>>]
CoordinateList(items) == [is_list |-> TRUE, items |-> items]

\* the `location` member of a location entry: absent or not an object, or a
\* geometry object with its `type` ("" when absent) and its coordinates
NoGeometry == [is_dict |-> FALSE, type |-> "", coordinates |-> NoCoordinates]
Geometry(type, coordinates) ==
    [is_dict |-> TRUE, type |-> type, coordinates |-> coordinates]

\* an item of thing["Locations"]: an object with its `location` member, or
\* a JSON value that is not an object
NotAnObject == [is_dict |-> FALSE, location |-> NoGeometry]
LocationEntry(geometry) == [is_dict |-> TRUE, location |-> geometry]

\* what _extract_location does: returns None, returns {"lat", "lon"}, or
\* raises
Absent == [kind |-> "none", lat |-> None, lon |-> None]
Located(lat, lon) == [kind |-> "location", lat |-> lat, lon |-> lon]
LocationRaised == [kind |-> "raised", lat |-> None, lon |-> None]

\* lines 207-212: the test of the coordinates
coordinates_ok(coordinates) ==
    /\ coordinates.is_list
    /\ Len(coordinates.items) >= 2
    /\ is_number(coordinates.items[1])
    /\ is_number(coordinates.items[2])

\* harvester._extract_location; `locations` is thing.get("Locations") or []
extract_location(locations) ==
    IF locations = <<>>
    THEN Absent
    ELSE LET first_location == locations[1]
         IN IF ~first_location.is_dict
            THEN LocationRaised
            ELSE LET location_obj == first_location.location
                 IN IF location_obj.is_dict /\ coordinates_ok(location_obj.coordinates)
                    THEN Located(py_float(location_obj.coordinates.items[2]),
                                 py_float(location_obj.coordinates.items[1]))
                    ELSE Absent

LocIdle == loc_pc = "off" /\ thing = <<>> /\ location = Absent

NoObject == Obj(Ref("none", 0), <<>>)

RecIdle ==
    /\ pc = "off"
    /\ cur = <<>> /\ prev = <<>> /\ prev_sigs = EmptyMap
    /\ out1 = NoResult /\ out2 = NoResult
SigIdle ==
    /\ sig_pc = "off"
    /\ rec_a = NoObject /\ rec_b = NoObject
    /\ sig_a = "" /\ sig_b = ""

\* a file: whether it exists, the shape of its content and the JSON document
\* it holds. Shapes: "ok" is what save_json_file writes there; "invalid" is
\* not JSON; "other" is valid JSON of another type (a records file that is
\* not a list, a state file that is not an object); "bad_items" is a list
\* whose items are not objects; "bad_signatures" is an object whose
\* `signatures` member is not an object
NoFile(empty) == [exists |-> FALSE, shape |-> "ok", data |-> empty]
File(data) == [exists |-> TRUE, shape |-> "ok", data |-> data]
Malformed(shape, empty) == [exists |-> TRUE, shape |-> shape, data |-> empty]
NoStats == [created |-> 0, updated |-> 0, unchanged |-> 0, total |-> 0]
NoConfig == [entry |-> "none", incremental |-> FALSE, output |-> FALSE,
             catalogs |-> FALSE]

PassIdle ==
    /\ cfg = NoConfig
    /\ pass_pc = "off" /\ pass_result = "none"
    /\ records = <<>> /\ fetched = <<>>
    /\ pass_stats = NoStats
    /\ io_log = {}
    /\ records_file = NoFile(<<>>) /\ state_file = NoFile(EmptyMap)
    /\ stac_file = NoFile(<<>>) /\ dcat_file = NoFile(<<>>)
    /\ last_stats = <<>>
    /\ hist_last = {} /\ hist_before = {} /\ hist_interrupted = FALSE
TimeIdle == clock = 0 /\ last_refresh_ts = 0
ProjIdle == proj_pc = "off" /\ proj_records = <<>> /\ stac = <<>> /\ dcat = <<>>
FnIdle == LocIdle /\ ProjIdle

\* the threads, and the serving state of a process no thread has entered
Callers == 1..NumCallers
NoFiles == [records |-> 0, state |-> 0, stac |-> 0, dcat |-> 0]
ApiOff ==
    /\ api_pc = <<>> /\ api_force = <<>> /\ api_now = <<>>
    /\ api_ret = <<>> /\ api_resp = <<>>
    /\ lock = 0
    /\ api_files = NoFiles /\ api_stats = 0
    /\ harvests = 0

\* ------------------------------------ specification: the reconciler alone
RecInit ==
    /\ pc = "start"
    /\ prev_sigs \in SignatureMaps
    /\ prev \in StoredLists
    /\ cur \in FetchedLists
    /\ out1 = NoResult
    /\ out2 = NoResult
    /\ SigIdle /\ PassIdle /\ TimeIdle /\ FnIdle /\ ApiOff

\* apply_incremental_harvest(current_records, P, S)
Harvest ==
    /\ pc = "start"
    /\ out1' = apply_incremental_harvest(cur, prev, prev_sigs)
    /\ pc' = "harvested"
    /\ UNCHANGED <<cur, prev, prev_sigs, out2, sig_vars, pass_vars, time_vars, fn_vars, api_vars>>

\* apply_incremental_harvest(current_records, final1, sigs1)
Rerun ==
    /\ pc = "harvested"
    /\ out2' = apply_incremental_harvest(cur, out1.final_records, out1.signatures)
    /\ pc' = "rerun"
    /\ UNCHANGED <<cur, prev, prev_sigs, out1, sig_vars, pass_vars, time_vars, fn_vars, api_vars>>

RecNext == Harvest \/ Rerun

SpecRec == RecInit /\ [][RecNext]_vars

\* -------------------------------- specification: the signature function
\* dicts over the fields datastream_id and description, in either insertion
\* order, with values of different JSON types and equal str()
SigIdValues == {None, IntVal("1"), StrVal("1")}
SigContentValues == {StrVal("a"), StrVal("1"), IntVal("1")}
SigDicts ==
    {<<>>}
    \cup {<<Item("datastream_id", id)>> : id \in SigIdValues}
    \cup {<<Item("description", c)>> : c \in SigContentValues}
    \cup {<<Item("datastream_id", id), Item("description", c)>> :
            id \in SigIdValues, c \in SigContentValues}
    \cup {<<Item("description", c), Item("datastream_id", id)>> :
            id \in SigIdValues, c \in SigContentValues}

SigInit ==
    /\ sig_pc = "start"
    /\ rec_a \in {Obj(Ref("a", 1), d) : d \in SigDicts}
    /\ rec_b \in {Obj(Ref("b", 1), d) : d \in SigDicts}
    /\ sig_a = "" /\ sig_b = ""
    /\ RecIdle /\ PassIdle /\ TimeIdle /\ FnIdle /\ ApiOff

\* record_signature(R1), record_signature(R2)
Sign ==
    /\ sig_pc = "start"
    /\ sig_a' = record_signature(rec_a)
    /\ sig_b' = record_signature(rec_b)
    /\ sig_pc' = "signed"
    /\ UNCHANGED <<rec_a, rec_b, rec_vars, pass_vars, time_vars, fn_vars, api_vars>>

SigNext == Sign

SpecSig == SigInit /\ [][SigNext]_vars

\* ------------------------------------------------- the harvest pass
\* record.get(name, default)
dict_get_or(d, name, default) ==
    IF \E i \in 1..Len(d) : d[i].k = name THEN dict_get(d, name) ELSE default

\* f"datastream-{record.get('datastream_id')}"
item_id_of(record) == "datastream-" \o py_str(datastream_id_of(record))

\* record.get("location")
location_of(record) == dict_get(record.d, "location")

\* isinstance(location, dict) and "lat" in location and "lon" in location
has_lat_lon(value) ==
    value.t = "dict" /\ {"lat", "lon"} \subseteq DOMAIN value

\* {"type": "Point", "coordinates": [...]}
Point(coordinates) == [type |-> "Point", coordinates |-> coordinates]

\* lines 325-332: the geometry and the bbox of a record, None without location
stac_geometry(record) ==
    LET loc == location_of(record)
    IN IF has_lat_lon(loc) THEN Point(<<loc.lon, loc.lat>>) ELSE None
stac_bbox(record) ==
    LET loc == location_of(record)
    IN IF has_lat_lon(loc) THEN <<loc.lon, loc.lat, loc.lon, loc.lat>> ELSE None

\* lines 320-365: the feature of one record
stac_feature(record) ==
    [id |-> item_id_of(record),
     geometry |-> stac_geometry(record),
     bbox |-> stac_bbox(record),
     datastream_id |-> datastream_id_of(record),
     description |-> dict_get_or(record.d, "description", StrVal(""))]

\* harvester.build_stac_item_collection: the features, keyless records skipped
build_stac_item_collection(recs) ==
    LET keyed == SelectSeq(recs, HasKey)
    IN [p \in 1..Len(keyed) |-> stac_feature(keyed[p])]

\* lines 400-408: the "dct:spatial" member, <<>> when the key is not set
dcat_spatial(record) ==
    LET loc == location_of(record)
    IN IF has_lat_lon(loc) THEN <<Point(<<loc.lon, loc.lat>>)>> ELSE <<>>

\* lines 400-408 with the coordinates as [lat, lon]
dcat_dataset_lat_lon(record) ==
    LET loc == location_of(record)
    IN [id |-> item_id_of(record),
        identifier |-> item_id_of(record),
        description |-> dict_get_or(record.d, "description", StrVal("")),
        spatial |-> IF has_lat_lon(loc) THEN <<Point(<<loc.lat, loc.lon>>)>> ELSE <<>>]

\* lines 379-409: the dataset of one record
dcat_dataset(record) ==
    [id |-> item_id_of(record),
     identifier |-> item_id_of(record),
     description |-> dict_get_or(record.d, "description", StrVal("")),
     spatial |-> dcat_spatial(record)]

\* harvester.build_dcat_catalog: the datasets, keyless records skipped
build_dcat_catalog(recs) ==
    LET keyed == SelectSeq(recs, HasKey)
    IN [p \in 1..Len(keyed) |-> dcat_dataset(keyed[p])]

\* json.dumps(records): the documents of the objects, in order
Dump(recs) == [p \in 1..Len(recs) |-> recs[p].d]

\* harvester.load_json_file: the default when the file is missing or is not
\* JSON, else the parsed document whatever its type
load_json_file(file, default) ==
    IF file.exists /\ file.shape # "invalid" THEN file ELSE File(default)

\* load_json_file(records file, []) and `previous_records if
\* isinstance(previous_records, list) else []`: fresh objects
load_records(file) ==
    LET doc == load_json_file(file, <<>>)
    IN IF doc.shape \in {"ok", "bad_items"} THEN Objects("prev", doc.data) ELSE <<>>

\* load_json_file(state file, {"signatures": {}}).get("signatures", {}) and
\* the isinstance(previous_signatures, dict) test
load_signatures(file) ==
    LET doc == load_json_file(file, EmptyMap)
    IN IF doc.shape = "ok" THEN doc.data ELSE EmptyMap

\* the attribute errors of the incremental branch: state_payload.get on a
\* document that is not an object (api.py line 90, harvester.py line 496)
\* and record.get on a previous record that is not an object (harvester.py
\* line 111)
load_raises(rfile, sfile) ==
    \/ load_json_file(sfile, EmptyMap).shape = "other"
    \/ load_json_file(rfile, <<>>).shape = "bad_items"

\* the pass outcome of the incremental branch taken whatever the flag says
reconcile_always(incremental, current_records, rfile, sfile) ==
    LET result == apply_incremental_harvest(current_records, load_records(rfile),
                                            load_signatures(sfile))
    IN [records |-> result.final_records,
        state_file |-> File(result.signatures),
        stats |-> result.stats,
        raised |-> load_raises(rfile, sfile),
        log |-> {"read records", "read state", "write state"}]

\* api.py lines 87-107, harvester.py lines 491-505: with the incremental flag
\* load the previous records and signatures, reconcile and save the new
\* signatures; without it keep the fetched records and touch no file
reconcile_pass(incremental, current_records, rfile, sfile) ==
    IF incremental
    THEN LET result == apply_incremental_harvest(current_records, load_records(rfile),
                                                 load_signatures(sfile))
         IN [records |-> result.final_records,
             state_file |-> File(result.signatures),
             stats |-> result.stats,
             raised |-> load_raises(rfile, sfile),
             log |-> {"read records", "read state", "write state"}]
    ELSE [records |-> current_records,
          state_file |-> sfile,
          stats |-> [created |-> Len(current_records), updated |-> 0,
                     unchanged |-> 0, total |-> Len(current_records)],
          raised |-> FALSE,
          log |-> {}]

\* the file reads and writes a pass can log
FileWrites == {"write records", "write state", "write stac", "write dcat"}
FileReads == {"read records", "read state"}

\* what one fetch of a pass can return
PassFetchLists == {Objects("cur", ds) : ds \in Lists(FetchedDicts, MaxFetch)}

\* the configurations: the service (all outputs configured, api.py lines
\* 37-43) or the command line with or without --output and the catalogs
Configs ==
    {[entry |-> "api", incremental |-> inc, output |-> TRUE, catalogs |-> TRUE] :
        inc \in BOOLEAN}
    \cup {[entry |-> "cli", incremental |-> inc, output |-> out, catalogs |-> cat] :
            inc \in BOOLEAN, out \in BOOLEAN, cat \in BOOLEAN}

PassInit ==
    /\ cfg \in Configs
    /\ pass_pc = "idle" /\ pass_result = "none"
    /\ records = <<>> /\ fetched = <<>>
    /\ pass_stats = NoStats
    /\ io_log = {}
    /\ records_file = NoFile(<<>>) /\ state_file = NoFile(EmptyMap)
    /\ stac_file = NoFile(<<>>) /\ dcat_file = NoFile(<<>>)
    /\ last_stats = <<>>
    /\ hist_last = {} /\ hist_before = {} /\ hist_interrupted = FALSE
    /\ clock = 1 /\ last_refresh_ts = 0
    /\ RecIdle /\ SigIdle /\ FnIdle /\ ApiOff

KeyedDictsOf(recs) == {recs[i].d : i \in {j \in 1..Len(recs) : HasKey(recs[j])}}

\* the pass has run to its end: its fetch becomes the last completed one
Completed ==
    /\ pass_result' = "ok"
    /\ pass_pc' = "idle"
    /\ hist_before' = hist_before \cup hist_last
    /\ hist_last' = KeyedDictsOf(fetched)
    /\ UNCHANGED hist_interrupted

\* an AttributeError leaves the pass after the two files have been read
Raised ==
    /\ pass_result' = "raised"
    /\ pass_pc' = "idle"
    /\ io_log' = io_log \cup FileReads

\* refresh_metadata(force=True) is called, or the command is run
Begin ==
    /\ pass_pc = "idle"
    /\ cfg.entry = "api" => clock < MaxClock
    /\ pass_pc' = "fetch"
    /\ pass_result' = "none"
    /\ records' = <<>> /\ fetched' = <<>>
    /\ pass_stats' = NoStats
    /\ io_log' = {}
    /\ UNCHANGED <<cfg, file_vars, last_stats, hist_vars, rec_vars, sig_vars, time_vars, fn_vars, api_vars>>

\* api.py lines 79-83, harvester.py lines 458-463: the fetch succeeds
FetchOk ==
    /\ pass_pc = "fetch"
    /\ \E list \in PassFetchLists : records' = list /\ fetched' = list
    /\ io_log' = io_log \cup {"request upstream"}
    /\ pass_pc' = "reconcile"
    /\ UNCHANGED <<cfg, pass_result, pass_stats, file_vars, last_stats,
                   hist_vars, rec_vars, sig_vars, time_vars, fn_vars, api_vars>>

\* a failed fetch that also clears the stats and stamps the refresh time
FetchFailStamping ==
    /\ pass_pc = "fetch"
    /\ pass_pc' = "idle"
    /\ pass_result' = "error"
    /\ io_log' = io_log \cup {"request upstream"}
    /\ last_stats' = <<>>
    /\ last_refresh_ts' = clock
    /\ UNCHANGED <<cfg, records, fetched, pass_stats, file_vars,
                   hist_vars, rec_vars, sig_vars, clock, fn_vars, api_vars>>

\* api.py lines 84-85, harvester.py lines 437-438, 464-488: login or fetch fails
FetchFail ==
    /\ pass_pc = "fetch"
    /\ pass_pc' = "idle"
    /\ pass_result' = "error"
    /\ io_log' = io_log \cup {"request upstream"}
    /\ UNCHANGED <<cfg, records, fetched, pass_stats, file_vars, last_stats,
                   hist_vars, rec_vars, sig_vars, time_vars, fn_vars, api_vars>>

\* api.py lines 87-107
ApiReconcile ==
    /\ pass_pc = "reconcile" /\ cfg.entry = "api"
    /\ LET r == reconcile_pass(cfg.incremental, records, records_file, state_file)
       IN IF r.raised
          THEN /\ Raised
               /\ UNCHANGED <<records, state_file, pass_stats, last_stats>>
          ELSE /\ records' = r.records
               /\ state_file' = r.state_file
               /\ pass_stats' = r.stats
               /\ last_stats' = <<r.stats>>
               /\ io_log' = io_log \cup r.log
               /\ pass_pc' = "write_records"
               /\ UNCHANGED pass_result
    /\ UNCHANGED <<cfg, fetched, records_file, stac_file, dcat_file,
                   hist_vars, rec_vars, sig_vars, time_vars, fn_vars, api_vars>>

\* api.py line 116
ApiWriteRecords ==
    /\ pass_pc = "write_records" /\ cfg.entry = "api"
    /\ records_file' = File(Dump(records))
    /\ io_log' = io_log \cup {"write records"}
    /\ pass_pc' = "write_stac"
    /\ UNCHANGED <<cfg, pass_result, records, fetched, pass_stats, state_file,
                   stac_file, dcat_file, last_stats, hist_vars, rec_vars, sig_vars, time_vars, fn_vars, api_vars>>

\* api.py lines 109-113, 117
ApiWriteStac ==
    /\ pass_pc = "write_stac" /\ cfg.entry = "api"
    /\ stac_file' = File(build_stac_item_collection(records))
    /\ io_log' = io_log \cup {"write stac"}
    /\ pass_pc' = "write_dcat"
    /\ UNCHANGED <<cfg, pass_result, records, fetched, pass_stats, records_file,
                   state_file, dcat_file, last_stats, hist_vars, rec_vars, sig_vars, time_vars, fn_vars, api_vars>>

\* api.py lines 114, 118
ApiWriteDcat ==
    /\ pass_pc = "write_dcat" /\ cfg.entry = "api"
    /\ dcat_file' = File(build_dcat_catalog(records))
    /\ io_log' = io_log \cup {"write dcat"}
    /\ pass_pc' = "stamp"
    /\ UNCHANGED <<cfg, pass_result, records, fetched, pass_stats, records_file,
                   state_file, stac_file, last_stats, hist_vars, rec_vars, sig_vars, time_vars, fn_vars, api_vars>>

\* api.py line 120: the pass ends by setting _LAST_REFRESH_TS (which a
\* forced refresh never reads) to time.time(), a later time than that of
\* the pass before
ApiStamp ==
    /\ pass_pc = "stamp" /\ cfg.entry = "api"
    /\ clock' = clock + 1
    /\ last_refresh_ts' = clock'
    /\ Completed
    /\ UNCHANGED <<cfg, records, fetched, pass_stats, io_log, file_vars, last_stats,
                   rec_vars, sig_vars, fn_vars, api_vars>>

\* harvester.py lines 490-493: --incremental without --output
CliConfigError ==
    /\ pass_pc = "reconcile" /\ cfg.entry = "cli"
    /\ cfg.incremental /\ ~cfg.output
    /\ pass_pc' = "idle"
    /\ pass_result' = "error"
    /\ UNCHANGED <<cfg, records, fetched, pass_stats, io_log, file_vars, last_stats,
                   hist_vars, rec_vars, sig_vars, time_vars, fn_vars, api_vars>>

\* harvester.py lines 490-505
CliReconcile ==
    /\ pass_pc = "reconcile" /\ cfg.entry = "cli"
    /\ ~(cfg.incremental /\ ~cfg.output)
    /\ LET r == reconcile_pass(cfg.incremental, records, records_file, state_file)
       IN IF r.raised
          THEN /\ Raised
               /\ UNCHANGED <<records, state_file, pass_stats>>
          ELSE /\ records' = r.records
               /\ state_file' = r.state_file
               /\ pass_stats' = r.stats
               /\ io_log' = io_log \cup r.log
               /\ pass_pc' = "write_stac"
               /\ UNCHANGED pass_result
    /\ UNCHANGED <<cfg, fetched, records_file, stac_file, dcat_file,
                   last_stats, hist_vars, rec_vars, sig_vars, time_vars, fn_vars, api_vars>>

\* harvester.py lines 509-518
CliWriteStac ==
    /\ pass_pc = "write_stac" /\ cfg.entry = "cli"
    /\ IF cfg.catalogs
       THEN /\ stac_file' = File(build_stac_item_collection(records))
            /\ io_log' = io_log \cup {"write stac"}
       ELSE UNCHANGED <<stac_file, io_log>>
    /\ pass_pc' = "write_dcat"
    /\ UNCHANGED <<cfg, pass_result, records, fetched, pass_stats, records_file,
                   state_file, dcat_file, last_stats, hist_vars, rec_vars, sig_vars, time_vars, fn_vars, api_vars>>

\* harvester.py lines 520-524
CliWriteDcat ==
    /\ pass_pc = "write_dcat" /\ cfg.entry = "cli"
    /\ IF cfg.catalogs
       THEN /\ dcat_file' = File(build_dcat_catalog(records))
            /\ io_log' = io_log \cup {"write dcat"}
       ELSE UNCHANGED <<dcat_file, io_log>>
    /\ pass_pc' = "write_records"
    /\ UNCHANGED <<cfg, pass_result, records, fetched, pass_stats, records_file,
                   state_file, stac_file, last_stats, hist_vars, rec_vars, sig_vars, time_vars, fn_vars, api_vars>>

\* harvester.py lines 526-542: write the records, or print them, and return 0
CliWriteRecords ==
    /\ pass_pc = "write_records" /\ cfg.entry = "cli"
    /\ IF cfg.output
       THEN /\ records_file' = File(Dump(records))
            /\ io_log' = io_log \cup {"write records"}
       ELSE UNCHANGED <<records_file, io_log>>
    /\ Completed
    /\ UNCHANGED <<cfg, records, fetched, pass_stats, state_file, stac_file,
                   dcat_file, last_stats, rec_vars, sig_vars, time_vars, fn_vars, api_vars>>

PassNext ==
    \/ Begin
    \/ FetchOk
    \/ FetchFail
    \/ ApiReconcile
    \/ ApiWriteRecords
    \/ ApiWriteStac
    \/ ApiWriteDcat
    \/ ApiStamp
    \/ CliConfigError
    \/ CliReconcile
    \/ CliWriteStac
    \/ CliWriteDcat
    \/ CliWriteRecords

SpecPass == PassInit /\ [][PassNext]_vars

\* ------------------------ specification: passes that can be interrupted
\* The process is killed when a pass has just written the state file (api.py
\* line 99, harvester.py line 505), before it writes the records file or a
\* catalog. The files keep what was written; the memory of the process is
\* lost, and the next one starts with the module state of api.py lines
\* 22-23.
Interrupted ==
    /\ \/ cfg.entry = "api" /\ pass_pc = "write_records"
       \/ cfg.entry = "cli" /\ pass_pc = "write_stac"
    /\ pass_pc' = "idle"
    /\ pass_result' = "interrupted"
    /\ records' = <<>> /\ fetched' = <<>>
    /\ pass_stats' = NoStats
    /\ io_log' = {}
    /\ last_refresh_ts' = 0
    /\ last_stats' = <<>>
    /\ hist_interrupted' = TRUE
    /\ UNCHANGED <<cfg, file_vars, hist_last, hist_before, clock, rec_vars,
                   sig_vars, fn_vars, api_vars>>

\* the deployments that persist incremental state: the service with
\* HARVEST_INCREMENTAL on, the command with --incremental and --output
CrashInit ==
    /\ PassInit
    /\ cfg.incremental /\ cfg.output

CrashNext ==
    \/ Begin
    \/ FetchOk
    \/ FetchFail
    \/ ApiReconcile
    \/ ApiWriteRecords
    \/ ApiWriteStac
    \/ ApiWriteDcat
    \/ ApiStamp
    \/ CliReconcile
    \/ CliWriteStac
    \/ CliWriteDcat
    \/ CliWriteRecords
    \/ Interrupted

SpecCrash == CrashInit /\ [][CrashNext]_vars

\* ------------------- specification: passes over malformed persisted state
\* the contents the records file and the state file can have when the first
\* pass starts: missing, not JSON, or JSON of an unexpected shape
FoundRecordsFiles ==
    {NoFile(<<>>), File(<<>>)}
    \cup {Malformed(shape, <<>>) : shape \in {"invalid", "other"}}
    \cup {Malformed("bad_items", <<<<>>>>)}
FoundStateFiles ==
    {NoFile(EmptyMap), File(EmptyMap)}
    \cup {Malformed(shape, EmptyMap) : shape \in {"invalid", "other", "bad_signatures"}}

MalformedInit ==
    /\ cfg \in Configs
    /\ records_file \in FoundRecordsFiles
    /\ state_file \in FoundStateFiles
    /\ pass_pc = "idle" /\ pass_result = "none"
    /\ records = <<>> /\ fetched = <<>>
    /\ pass_stats = NoStats
    /\ io_log = {}
    /\ stac_file = NoFile(<<>>) /\ dcat_file = NoFile(<<>>)
    /\ last_stats = <<>>
    /\ hist_last = {} /\ hist_before = {} /\ hist_interrupted = FALSE
    /\ clock = 1 /\ last_refresh_ts = 0
    /\ RecIdle /\ SigIdle /\ FnIdle /\ ApiOff

SpecMalformed == MalformedInit /\ [][PassNext]_vars

\* ------------------------------ specification: the location of a thing
CoordinateValues == {IntVal("7"), FloatVal("46.5"), BoolVal("True"), StrVal("7")}
CoordinateLists == {CoordinateList(items) : items \in Lists(CoordinateValues, MaxCoords)}
GeometryTypes == {"Point", "Polygon", ""}
Geometries ==
    {NoGeometry}
    \cup {Geometry(type, c) : type \in GeometryTypes,
                              c \in {NoCoordinates} \cup CoordinateLists}
FirstEntries == {NotAnObject} \cup {LocationEntry(g) : g \in Geometries}
\* a well-formed entry that may follow the first one
LaterEntry ==
    LocationEntry(Geometry("Point", CoordinateList(<<FloatVal("9.5"), FloatVal("45.5")>>)))
\* thing.get("Locations") or []: none, one entry, or two
LocationLists ==
    {<<>>} \cup {<<e>> : e \in FirstEntries} \cup {<<e, LaterEntry>> : e \in FirstEntries}

LocInit ==
    /\ loc_pc = "start"
    /\ thing \in LocationLists
    /\ location = Absent
    /\ RecIdle /\ SigIdle /\ PassIdle /\ TimeIdle /\ ProjIdle /\ ApiOff

\* _extract_location(thing)
ExtractLocation ==
    /\ loc_pc = "start"
    /\ location' = extract_location(thing)
    /\ loc_pc' = "extracted"
    /\ UNCHANGED <<thing, rec_vars, sig_vars, pass_vars, time_vars, proj_vars, api_vars>>

LocNext == ExtractLocation

SpecLoc == LocInit /\ [][LocNext]_vars

\* ------------------------------------ specification: the two projectors
\* records as the normalizer makes them: datastream_id null or not, the
\* location key missing, null or a {lat, lon} object
ProjLocations == {None, LocVal(FloatVal("46.5"), FloatVal("7.0"))}
ProjDicts ==
    {<<Item("datastream_id", id)>> : id \in IdValues}
    \cup {<<Item("datastream_id", id), Item("location", loc)>> :
            id \in IdValues, loc \in ProjLocations}
ProjLists == {Objects("cur", ds) : ds \in Lists(ProjDicts, MaxRecords)}

ProjInit ==
    /\ proj_pc = "start"
    /\ proj_records \in ProjLists
    /\ stac = <<>> /\ dcat = <<>>
    /\ RecIdle /\ SigIdle /\ PassIdle /\ TimeIdle /\ LocIdle /\ ApiOff

\* build_stac_item_collection(records, ...), build_dcat_catalog(records)
Project ==
    /\ proj_pc = "start"
    /\ stac' = build_stac_item_collection(proj_records)
    /\ dcat' = build_dcat_catalog(proj_records)
    /\ proj_pc' = "projected"
    /\ UNCHANGED <<proj_records, rec_vars, sig_vars, pass_vars, time_vars, loc_vars, api_vars>>

ProjNext == Project

SpecProj == ProjInit /\ [][ProjNext]_vars

\* ----------------------------- specification: the threads of the service
\* Each thread makes calls, one after the other: refresh_metadata(force=True)
\* or a request to a read endpoint, which calls refresh_metadata(force=False)
\* and then reads its file. The content of a file is kept as the number of
\* the pass that wrote it. The configuration is the default one, with
\* incremental mode on.
\* line 71, 76: _LAST_REFRESH_TS and now - _LAST_REFRESH_TS < interval
Fresh(now) ==
    last_refresh_ts # 0 /\ now - last_refresh_ts < harvest_interval_seconds

\* the steps of refresh_metadata from the fetch to the timestamp
InPass == {"fetch", "reconcile", "save_records", "save_stac", "save_dcat", "stamp"}

ApiInit ==
    /\ api_pc = [t \in Callers |-> "idle"]
    /\ api_force = [t \in Callers |-> FALSE]
    /\ api_now = [t \in Callers |-> 0]
    /\ api_ret = [t \in Callers |-> 0]
    /\ api_resp = [t \in Callers |-> "none"]
    /\ lock = 0
    /\ api_files = NoFiles /\ api_stats = 0
    /\ harvests = 0
    /\ clock = 1 /\ last_refresh_ts = 0
    /\ RecIdle /\ SigIdle /\ PassIdle /\ FnIdle

\* what no step of a thread touches
api_rest == <<rec_vars, sig_vars, pass_vars, fn_vars>>

\* the thread is back where it makes calls
Returned(t) ==
    /\ api_pc' = [api_pc EXCEPT ![t] = "idle"]
    /\ api_force' = [api_force EXCEPT ![t] = FALSE]
    /\ api_now' = [api_now EXCEPT ![t] = 0]
    /\ api_ret' = [api_ret EXCEPT ![t] = 0]

\* lines 66-73: the call and the staleness check outside the lock; a call
\* that is not forced and finds the cache fresh returns at line 72
CallRefresh(t) ==
    /\ api_pc[t] = "idle"
    /\ \E force \in BOOLEAN :
         /\ api_force' = [api_force EXCEPT ![t] = force]
         /\ IF ~force /\ Fresh(clock)
            THEN /\ api_pc' = [api_pc EXCEPT ![t] = "read"]
                 /\ api_ret' = [api_ret EXCEPT ![t] = 72]
                 /\ api_now' = [api_now EXCEPT ![t] = clock]
            ELSE /\ api_pc' = [api_pc EXCEPT ![t] = "lock"]
                 /\ UNCHANGED <<api_ret, api_now>>
    /\ UNCHANGED <<api_resp, lock, api_files, api_stats, harvests, time_vars, api_rest>>

\* lines 74-77 entering the block without waiting for the lock
EnterLockUnlocked(t) ==
    /\ api_pc[t] = "lock"
    /\ IF ~api_force[t] /\ Fresh(clock)
       THEN /\ api_pc' = [api_pc EXCEPT ![t] = "read"]
            /\ api_ret' = [api_ret EXCEPT ![t] = 77]
            /\ api_now' = [api_now EXCEPT ![t] = clock]
            /\ UNCHANGED lock
       ELSE /\ api_pc' = [api_pc EXCEPT ![t] = "fetch"]
            /\ lock' = t
            /\ UNCHANGED <<api_ret, api_now>>
    /\ UNCHANGED <<api_force, api_resp, api_files, api_stats, harvests,
                   time_vars, api_rest>>

\* lines 74-77 without the second staleness check
EnterLockNoRecheck(t) ==
    /\ api_pc[t] = "lock"
    /\ lock = 0
    /\ api_pc' = [api_pc EXCEPT ![t] = "fetch"]
    /\ lock' = t
    /\ UNCHANGED <<api_now, api_ret, api_force, api_resp, api_files, api_stats,
                   harvests, time_vars, api_rest>>

\* lines 74-77: the thread gets the lock and checks staleness again with a
\* new reading of the clock; a call that is not forced and finds the cache
\* fresh returns at line 77, which releases the lock
EnterLock(t) ==
    /\ api_pc[t] = "lock"
    /\ lock = 0
    /\ IF ~api_force[t] /\ Fresh(clock)
       THEN /\ api_pc' = [api_pc EXCEPT ![t] = "read"]
            /\ api_ret' = [api_ret EXCEPT ![t] = 77]
            /\ api_now' = [api_now EXCEPT ![t] = clock]
            /\ UNCHANGED lock
       ELSE /\ api_pc' = [api_pc EXCEPT ![t] = "fetch"]
            /\ lock' = t
            /\ UNCHANGED <<api_ret, api_now>>
    /\ UNCHANGED <<api_force, api_resp, api_files, api_stats, harvests,
                   time_vars, api_rest>>

\* lines 79-83: the token and the records are obtained
Fetched(t) ==
    /\ api_pc[t] = "fetch"
    /\ harvests < MaxHarvests
    /\ harvests' = harvests + 1
    /\ api_pc' = [api_pc EXCEPT ![t] = "reconcile"]
    /\ UNCHANGED <<api_force, api_now, api_ret, api_resp, lock, api_files,
                   api_stats, time_vars, api_rest>>

\* lines 84-85 with the request going on to read its file
FetchRaisedServing(t) ==
    /\ api_pc[t] = "fetch"
    /\ lock' = 0
    /\ api_ret' = [api_ret EXCEPT ![t] = 85]
    /\ api_pc' = [api_pc EXCEPT ![t] = "read"]
    /\ UNCHANGED <<api_force, api_now, api_resp, api_files, api_stats,
                   harvests, time_vars, api_rest>>

\* lines 84-85 with the lock still held when the exception leaves the block
FetchRaisedHoldingLock(t) ==
    /\ api_pc[t] = "fetch"
    /\ api_ret' = [api_ret EXCEPT ![t] = 85]
    /\ api_resp' = [api_resp EXCEPT ![t] = "error"]
    /\ api_pc' = [api_pc EXCEPT ![t] = "done"]
    /\ UNCHANGED <<api_force, api_now, lock, api_files, api_stats,
                   harvests, time_vars, api_rest>>

\* lines 84-85: login or fetch raises RequestException; HTTPException(502)
\* leaves the block, which releases the lock, and ends the call or the
\* request with that error
FetchRaised(t) ==
    /\ api_pc[t] = "fetch"
    /\ lock' = 0
    /\ api_ret' = [api_ret EXCEPT ![t] = 85]
    /\ api_resp' = [api_resp EXCEPT ![t] = "error"]
    /\ api_pc' = [api_pc EXCEPT ![t] = "done"]
    /\ UNCHANGED <<api_force, api_now, api_files, api_stats,
                   harvests, time_vars, api_rest>>

\* lines 87-100: reconcile, save the state file, set _LAST_INCREMENTAL_STATS
Reconciled(t) ==
    /\ api_pc[t] = "reconcile"
    /\ api_files' = [api_files EXCEPT !.state = harvests]
    /\ api_stats' = harvests
    /\ api_pc' = [api_pc EXCEPT ![t] = "save_records"]
    /\ UNCHANGED <<api_force, api_now, api_ret, api_resp, lock, harvests,
                   time_vars, api_rest>>

\* line 116
SavedRecords(t) ==
    /\ api_pc[t] = "save_records"
    /\ api_files' = [api_files EXCEPT !.records = harvests]
    /\ api_pc' = [api_pc EXCEPT ![t] = "save_stac"]
    /\ UNCHANGED <<api_force, api_now, api_ret, api_resp, lock, api_stats,
                   harvests, time_vars, api_rest>>

\* line 117
SavedStac(t) ==
    /\ api_pc[t] = "save_stac"
    /\ api_files' = [api_files EXCEPT !.stac = harvests]
    /\ api_pc' = [api_pc EXCEPT ![t] = "save_dcat"]
    /\ UNCHANGED <<api_force, api_now, api_ret, api_resp, lock, api_stats,
                   harvests, time_vars, api_rest>>

\* line 118
SavedDcat(t) ==
    /\ api_pc[t] = "save_dcat"
    /\ api_files' = [api_files EXCEPT !.dcat = harvests]
    /\ api_pc' = [api_pc EXCEPT ![t] = "stamp"]
    /\ UNCHANGED <<api_force, api_now, api_ret, api_resp, lock, api_stats,
                   harvests, time_vars, api_rest>>

\* line 120: _LAST_REFRESH_TS = time.time(); the block ends, which releases
\* the lock, and refresh_metadata returns: to the caller of a forced
\* refresh, or into the endpoint
Stamped(t) ==
    /\ api_pc[t] = "stamp"
    /\ last_refresh_ts' = clock
    /\ lock' = 0
    /\ IF api_force[t]
       THEN Returned(t)
       ELSE /\ api_pc' = [api_pc EXCEPT ![t] = "read"]
            /\ api_ret' = [api_ret EXCEPT ![t] = 120]
            /\ api_now' = [api_now EXCEPT ![t] = clock]
            /\ UNCHANGED api_force
    /\ UNCHANGED <<api_resp, api_files, api_stats, harvests, clock, api_rest>>

\* lines 130-136, 142-143, 149-150: after _ensure_data the endpoint loads
\* its file and returns what it holds (/datasets with
\* _LAST_INCREMENTAL_STATS)
Respond(t) ==
    /\ api_pc[t] = "read"
    /\ api_resp' = [api_resp EXCEPT ![t] = "ok"]
    /\ api_pc' = [api_pc EXCEPT ![t] = "done"]
    /\ api_now' = [api_now EXCEPT ![t] = 0]
    /\ UNCHANGED <<api_force, api_ret, lock, api_files, api_stats,
                   harvests, time_vars, api_rest>>

\* the response has been sent; the thread can make another call
Finish(t) ==
    /\ api_pc[t] = "done"
    /\ Returned(t)
    /\ api_resp' = [api_resp EXCEPT ![t] = "none"]
    /\ UNCHANGED <<lock, api_files, api_stats, harvests, time_vars, api_rest>>

\* time passes
Tick ==
    /\ clock < MaxClock
    /\ clock' = clock + 1
    /\ UNCHANGED <<last_refresh_ts, api_vars, api_rest>>

ApiNext ==
    \/ \E t \in Callers : CallRefresh(t)
    \/ \E t \in Callers : EnterLock(t)
    \/ \E t \in Callers : Fetched(t)
    \/ \E t \in Callers : FetchRaised(t)
    \/ \E t \in Callers : Reconciled(t)
    \/ \E t \in Callers : SavedRecords(t)
    \/ \E t \in Callers : SavedStac(t)
    \/ \E t \in Callers : SavedDcat(t)
    \/ \E t \in Callers : Stamped(t)
    \/ \E t \in Callers : Respond(t)
    \/ \E t \in Callers : Finish(t)
    \/ Tick

SpecApi == ApiInit /\ [][ApiNext]_vars

\* lines 123-124: an endpoint calls _ensure_data, which calls
\* refresh_metadata with force left at its default
EnsureData(t) ==
    /\ CallRefresh(t)
    /\ api_force'[t] = FALSE

\* the service as its endpoints drive it: every call comes from _ensure_data
EndpointNext ==
    \/ \E t \in Callers : EnsureData(t)
    \/ \E t \in Callers : EnterLock(t)
    \/ \E t \in Callers : Fetched(t)
    \/ \E t \in Callers : FetchRaised(t)
    \/ \E t \in Callers : Reconciled(t)
    \/ \E t \in Callers : SavedRecords(t)
    \/ \E t \in Callers : SavedStac(t)
    \/ \E t \in Callers : SavedDcat(t)
    \/ \E t \in Callers : Stamped(t)
    \/ \E t \in Callers : Respond(t)
    \/ \E t \in Callers : Finish(t)
    \/ Tick

\* The service with its threads scheduled. A thread inside refresh_metadata
\* keeps running: the upstream call of lines 79-83 returns or raises, and
\* the statements of lines 87-120 and of the endpoint are executed. A thread
\* blocked in _LOCK.acquire() (line 74) gets the lock if it stays free.
\* threading.Lock does not say which of several waiters proceeds at a
\* release, so a waiter has no more than this. Nothing obliges a client to
\* send a request or the clock to advance, so EnsureData, Finish and Tick
\* carry no condition.
Upstream(t) == Fetched(t) \/ FetchRaised(t)
Statements(t) ==
    \/ Reconciled(t) \/ SavedRecords(t) \/ SavedStac(t) \/ SavedDcat(t)
    \/ Stamped(t) \/ Respond(t)
Scheduling ==
    \A t \in Callers :
        /\ WF_vars(Upstream(t))
        /\ WF_vars(Statements(t))
        /\ WF_vars(EnterLock(t))
SpecApiFair == ApiInit /\ [][EndpointNext]_vars /\ Scheduling

\* ------------------------------------------- vocabulary of the properties
Called == pc \in {"harvested", "rerun"}

\* the indexes of the records of a list that carry an identity key
KeyedIdx(recs) == {i \in 1..Len(recs) : HasKey(recs[i])}
IdxOfKey(recs, key) == {i \in KeyedIdx(recs) : KeyOf(recs[i]) = key}
KeysIn(recs) == {KeyOf(recs[i]) : i \in KeyedIdx(recs)}
UniqueKeys(recs) ==
    \A i, j \in KeyedIdx(recs) : KeyOf(recs[i]) = KeyOf(recs[j]) => i = j
Last(S) == CHOOSE i \in S : \A j \in S : j <= i

\* where the i-th current record lands in final_records: its rank among
\* the keyed current records
Pos(current, i) == Cardinality({j \in KeyedIdx(current) : j <= i})

\* the classification the specification gives the i-th current record
MeantUnchanged(current, previous, sigs, i) ==
    /\ KeyOf(current[i]) \in DOMAIN sigs
    /\ sigs[KeyOf(current[i])] = record_signature(current[i])
    /\ IdxOfKey(previous, KeyOf(current[i])) # {}
MeantUpdated(current, previous, sigs, i) ==
    /\ ~MeantUnchanged(current, previous, sigs, i)
    /\ KeyOf(current[i]) \in DOMAIN sigs
MeantCreated(current, previous, sigs, i) ==
    KeyOf(current[i]) \notin DOMAIN sigs

\* C1 as stated: all records keyed (duplicate keys allowed) => the second
\* call reports nothing created, nothing updated, everything unchanged
C1_AsStated ==
    (pc = "rerun" /\ KeyedIdx(cur) = 1..Len(cur))
        => /\ out2.stats.created = 0
           /\ out2.stats.updated = 0
           /\ out2.stats.unchanged = Len(cur)

\* C1 (amended): idempotence. When every current record has an identity key
\* and records that share a key have equal signatures (so in particular when
\* the keys are unique), a second call on the same current_records with the
\* first call's final_records and signatures as previous state reports
\* created = 0, updated = 0, unchanged = len(current_records).
SameKeySameSignature(recs) ==
    \A i, j \in KeyedIdx(recs) :
        KeyOf(recs[i]) = KeyOf(recs[j])
            => record_signature(recs[i]) = record_signature(recs[j])
C1_Idempotent ==
    (pc = "rerun" /\ KeyedIdx(cur) = 1..Len(cur) /\ SameKeySameSignature(cur))
        => /\ out2.stats.created = 0
           /\ out2.stats.updated = 0
           /\ out2.stats.unchanged = Len(cur)
C1_Witness ==
    /\ pc = "rerun"
    /\ Len(cur) = 2
    /\ KeyedIdx(cur) = {1, 2}
    /\ SameKeySameSignature(cur)
    /\ out1.stats.created = 1
    /\ out1.stats.updated = 1
    /\ out2.stats.unchanged = 2

\* C2: identity preservation. A current record that is unchanged is
\* represented in final_records by the very object of previous_records that
\* is the last one with its key; when the two lists share no object (a
\* fetch against a loaded file) that is never the fetched object.
IdentityPreserved(current, previous, sigs, result) ==
    \A i \in KeyedIdx(current) :
        MeantUnchanged(current, previous, sigs, i)
            => /\ Pos(current, i) <= Len(result.final_records)
               /\ result.final_records[Pos(current, i)]
                    = previous[Last(IdxOfKey(previous, KeyOf(current[i])))]
NotTheFetchedObject(current, previous, sigs, result) ==
    \A i \in KeyedIdx(current) :
        MeantUnchanged(current, previous, sigs, i)
            => /\ Pos(current, i) <= Len(result.final_records)
               /\ result.final_records[Pos(current, i)].ref # current[i].ref
Classified(current, previous, sigs, result) ==
    /\ result.stats.unchanged =
         Cardinality({i \in KeyedIdx(current) : MeantUnchanged(current, previous, sigs, i)})
    /\ result.stats.updated =
         Cardinality({i \in KeyedIdx(current) : MeantUpdated(current, previous, sigs, i)})
    /\ result.stats.created =
         Cardinality({i \in KeyedIdx(current) : MeantCreated(current, previous, sigs, i)})
    /\ result.stats.created + result.stats.updated + result.stats.unchanged
         = Cardinality(KeyedIdx(current))
    /\ \A i \in KeyedIdx(current) :
         ~MeantUnchanged(current, previous, sigs, i)
            => /\ Pos(current, i) <= Len(result.final_records)
               /\ result.final_records[Pos(current, i)] = current[i]
C3_Classification ==
    /\ Called => Classified(cur, prev, prev_sigs, out1)
    /\ pc = "rerun" => Classified(cur, out1.final_records, out1.signatures, out2)
C3_Witness ==
    /\ pc = "harvested"
    /\ out1.stats.updated = 1
    /\ out1.stats.unchanged = 1
    /\ \E i \in KeyedIdx(cur) :
         /\ KeyOf(cur[i]) \in DOMAIN prev_sigs
         /\ prev_sigs[KeyOf(cur[i])] = record_signature(cur[i])
         /\ IdxOfKey(prev, KeyOf(cur[i])) = {}

\* C4: stats partition. With unique identity keys in current_records,
\* created + updated + unchanged = total = len(final_records).
Partitioned(result) ==
    /\ result.stats.created + result.stats.updated + result.stats.unchanged
         = result.stats.total
    /\ result.stats.total = Len(result.final_records)
C4_StatsPartition ==
    /\ (Called /\ UniqueKeys(cur)) => Partitioned(out1)
    /\ (pc = "rerun" /\ UniqueKeys(cur)) => Partitioned(out2)
C4_Witness ==
    /\ pc = "harvested"
    /\ UniqueKeys(cur)
    /\ Len(cur) = 2
    /\ Cardinality(KeyedIdx(cur)) = 1
    /\ out1.stats.total = 1

\* C5: key-drop. A current record without datastream_id is not in
\* final_records, adds no entry to the new signature map and is counted in
\* no bucket nor in total; a previous record without datastream_id is never
\* emitted.
KeylessDropped(current, previous, result) ==
    /\ \A i \in 1..Len(current) : ~HasKey(current[i]) =>
         /\ \A p \in 1..Len(result.final_records) :
              result.final_records[p].ref # current[i].ref
         /\ py_str(datastream_id_of(current[i])) \notin DOMAIN result.signatures
    /\ DOMAIN result.signatures = KeysIn(current)
    /\ \A p \in 1..Len(result.final_records) : HasKey(result.final_records[p])
    /\ result.stats.total = Cardinality(KeyedIdx(current))
    /\ result.stats.created + result.stats.updated + result.stats.unchanged
         = Cardinality(KeyedIdx(current))
    /\ \A j \in 1..Len(previous) : ~HasKey(previous[j]) =>
         \A p \in 1..Len(result.final_records) :
            result.final_records[p].ref # previous[j].ref
C5_KeyDrop ==
    /\ Called => KeylessDropped(cur, prev, out1)
    /\ pc = "rerun" => KeylessDropped(cur, out1.final_records, out2)
C5_Witness ==
    /\ pc = "harvested"
    /\ \E i \in 1..Len(cur) : ~HasKey(cur[i])
    /\ \E j \in 1..Len(prev) : ~HasKey(prev[j])
    /\ Len(out1.final_records) = 1

\* C6: order preservation. The identity keys of final_records, in order,
\* are the identity keys of the keyed current records, in order.
KeySeq(recs) == [p \in 1..Len(recs) |-> KeyOf(recs[p])]
OrderPreserved(current, result) ==
    KeySeq(result.final_records) = KeySeq(SelectSeq(current, HasKey))
C6_OrderPreserved ==
    /\ Called => OrderPreserved(cur, out1)
    /\ pc = "rerun" => OrderPreserved(cur, out2)
C6_Witness ==
    /\ pc = "harvested"
    /\ Len(cur) = 2 /\ Len(prev) = 2
    /\ KeyedIdx(cur) = {1, 2} /\ KeyedIdx(prev) = {1, 2}
    /\ KeyOf(cur[1]) = KeyOf(prev[2])
    /\ KeyOf(cur[2]) = KeyOf(prev[1])
    /\ KeyOf(cur[1]) = "2"
    /\ KeyOf(cur[2]) = "1"
    /\ out1.stats.unchanged = 1
    /\ out1.stats.updated = 1

\* C7: no tombstones. In an incremental pass a key of the previous records
\* or signatures that no fetched record carries is in neither final_records
\* nor the new signature map nor any counter: the keys of the new signature
\* map and of the persisted records are exactly the keys of the keyed
\* fetched records. So a record whose key was not in the fetch of the last
\* completed pass is emitted afresh and counted created, also when an
\* earlier pass fetched the very same content.
AfterReconcile ==
    /\ cfg.incremental
    /\ pass_pc \in {"write_records", "write_stac", "write_dcat", "stamp"}
DictKeys(dicts) == {py_str(dict_get(d, "datastream_id")) : d \in dicts}
NewSince(recs, dicts) ==
    {i \in KeyedIdx(recs) : KeyOf(recs[i]) \notin DictKeys(dicts)}
C7_NoTombstones ==
    /\ AfterReconcile =>
         /\ state_file.exists
         /\ DOMAIN state_file.data = KeysIn(fetched)
         /\ KeysIn(records) = KeysIn(fetched)
         /\ Len(records) = Cardinality(KeyedIdx(fetched))
         /\ pass_stats.created + pass_stats.updated + pass_stats.unchanged
              = Cardinality(KeyedIdx(fetched))
         /\ pass_stats.created = Cardinality(NewSince(fetched, hist_last))
         /\ \A i \in NewSince(fetched, hist_last) :
              records[Pos(fetched, i)] = fetched[i]
    /\ (cfg.incremental /\ pass_result = "ok") =>
         /\ DOMAIN state_file.data = KeysIn(fetched)
         /\ KeysIn(Objects("prev", records_file.data)) = KeysIn(fetched)
C7_Witness ==
    /\ AfterReconcile
    /\ records_file.exists
    /\ hist_last = {}
    /\ Len(fetched) = 1
    /\ HasKey(fetched[1])
    /\ fetched[1].d \in hist_before
    /\ pass_stats.created = 1
    /\ pass_stats.unchanged = 0

\* C8: duplicate keys in one fetch. Every copy of a key is emitted and
\* counted (no deduplication), each classified on its own against the
\* previous state, and the new signature map holds for the key the
\* signature of the last copy.
HasDuplicateKey(recs) == ~UniqueKeys(recs)
DuplicatesKept(current, previous, sigs, result) ==
    /\ \A key \in KeysIn(current) :
         /\ Cardinality(IdxOfKey(result.final_records, key))
              = Cardinality(IdxOfKey(current, key))
         /\ key \in DOMAIN result.signatures
         /\ result.signatures[key]
              = record_signature(current[Last(IdxOfKey(current, key))])
    /\ result.stats.created + result.stats.updated + result.stats.unchanged
         = Cardinality(KeyedIdx(current))
    /\ \A i \in KeyedIdx(current) :
         /\ Pos(current, i) <= Len(result.final_records)
         /\ (result.final_records[Pos(current, i)].ref = current[i].ref)
              <=> ~MeantUnchanged(current, previous, sigs, i)
C8_Duplicates ==
    (Called /\ HasDuplicateKey(cur))
        => DuplicatesKept(cur, prev, prev_sigs, out1)
C8_Witness ==
    /\ pc = "harvested"
    /\ Len(cur) = 2
    /\ datastream_id_of(cur[1]) = datastream_id_of(cur[2])
    /\ HasKey(cur[1])
    /\ record_signature(cur[1]) # record_signature(cur[2])
    /\ out1.stats.unchanged = 1
    /\ out1.stats.updated = 1
    /\ Len(out1.final_records) = 2

\* C9: signature function. The signature depends on the field names and
\* values only: two records with the same fields and values, in whatever
\* insertion order and whatever objects they are, have the same signature,
\* and two records that differ in a field name or a field value have
\* different signatures.
ItemsOf(record) == {record.d[i] : i \in 1..Len(record.d)}
C9_Signature ==
    sig_pc = "signed" => ((ItemsOf(rec_a) = ItemsOf(rec_b)) <=> (sig_a = sig_b))
C9_Witness ==
    /\ sig_pc = "signed"
    /\ rec_a.d # rec_b.d
    /\ Len(rec_a.d) = 2
    /\ ItemsOf(rec_a) = ItemsOf(rec_b)
    /\ sig_a = sig_b

\* C10: incremental mode off. A pass without the incremental flag reads
\* neither the records file nor the state file, never writes the state
\* file, persists exactly the fetched records in fetch order (keyless ones
\* included), and the service reports created = total = their number,
\* updated = 0, unchanged = 0.
C10_IncrementalOff ==
    (cfg.entry \in {"api", "cli"} /\ ~cfg.incremental) =>
        /\ io_log \cap {"read records", "read state", "write state"} = {}
        /\ ~state_file.exists
        /\ pass_pc \notin {"idle", "fetch"} => records = fetched
        /\ (pass_result = "ok" /\ cfg.output)
             => records_file = File(Dump(fetched))
        /\ (pass_result = "ok" /\ cfg.entry = "api")
             => last_stats = <<[created |-> Len(fetched), updated |-> 0,
                                unchanged |-> 0, total |-> Len(fetched)]>>
C10_Witness ==
    /\ cfg.entry = "api"
    /\ ~cfg.incremental
    /\ pass_result = "ok"
    /\ hist_before # {}
    /\ hist_last = {}
    /\ Len(fetched) = 1
    /\ records_file = File(Dump(fetched))
    /\ last_stats = <<[created |-> 1, updated |-> 0, unchanged |-> 0, total |-> 1]>>

\* a current record whose signature is the stored one while previous_records
\* holds no record of its key
Diverged(current, previous, sigs, i) ==
    /\ KeyOf(current[i]) \in DOMAIN sigs
    /\ sigs[KeyOf(current[i])] = record_signature(current[i])
    /\ IdxOfKey(previous, KeyOf(current[i])) = {}
DivergedIdx(current, previous, sigs) ==
    {i \in KeyedIdx(current) : Diverged(current, previous, sigs, i)}
SignatureMatchIdx(current, sigs) ==
    {i \in KeyedIdx(current) :
        /\ KeyOf(current[i]) \in DOMAIN sigs
        /\ sigs[KeyOf(current[i])] = record_signature(current[i])}

\* C19 as stated: diverged previous state. When previous_signatures holds
\* for a key the signature of the current record but previous_records has
\* no record of that key, the call returns, emits the current record and
\* counts it unchanged: every record whose signature is the stored one is
\* counted unchanged.
C19_AsStated ==
    Called =>
        /\ \A i \in DivergedIdx(cur, prev, prev_sigs) :
             out1.final_records[Pos(cur, i)] = cur[i]
        /\ out1.stats.unchanged = Cardinality(SignatureMatchIdx(cur, prev_sigs))

\* C19: diverged previous state. When previous_signatures holds for a key
\* the signature of the current record but previous_records has no record
\* of that key, the call returns, emits the current record and counts it
\* updated, not unchanged.
C19_DivergedUpdated ==
    Called =>
        LET D == DivergedIdx(cur, prev, prev_sigs)
            M == SignatureMatchIdx(cur, prev_sigs)
            K == {i \in KeyedIdx(cur) : KeyOf(cur[i]) \in DOMAIN prev_sigs}
        IN /\ \A i \in D :
                /\ Pos(cur, i) <= Len(out1.final_records)
                /\ out1.final_records[Pos(cur, i)] = cur[i]
           /\ out1.stats.unchanged = Cardinality(M \ D)
           /\ out1.stats.updated = Cardinality((K \ M) \cup D)
C19_Witness ==
    /\ pc = "harvested"
    /\ Len(cur) = 1 /\ prev = <<>>
    /\ DivergedIdx(cur, prev, prev_sigs) = {1}
    /\ out1.final_records = cur
    /\ out1.stats = [created |-> 0, updated |-> 1, unchanged |-> 0, total |-> 1]

\* C20: persisted-state consistency across passes. From empty persisted
\* state, after any sequence of incremental passes each of which completed
\* all its writes or failed before its first write, when the persisted
\* records have unique identity keys the persisted signature map has
\* exactly their keys, and the signature of each key is record_signature of
\* the persisted record of that key.
PersistedConsistent(recs, sigs) ==
    /\ DOMAIN sigs = KeysIn(recs)
    /\ \A i \in 1..Len(recs) :
         /\ HasKey(recs[i])
         /\ sigs[KeyOf(recs[i])] = record_signature(recs[i])
C20_PersistedConsistent ==
    (pass_pc = "idle" /\ cfg.incremental /\ cfg.output) =>
        LET recs == load_records(records_file)
            sigs == load_signatures(state_file)
        IN UniqueKeys(recs) => PersistedConsistent(recs, sigs)
C20_Witness ==
    /\ pass_pc = "idle" /\ cfg.incremental /\ cfg.output
    /\ pass_result = "error"
    /\ hist_before # {}
    /\ pass_stats = NoStats
    /\ Len(records_file.data) = 1
    /\ DOMAIN load_signatures(state_file) = {"1"}
    /\ PersistedConsistent(load_records(records_file), load_signatures(state_file))

\* C13: failed harvest leaves state untouched. The step in which login or
\* the fetch of a pass fails changes none of the records file, the state
\* file, the STAC output and the DCAT output, nor the last stats nor the
\* last-refresh timestamp, and the failed pass has written no file; so the
\* persisted records and signatures are still those of the last completed
\* pass.
FetchFailed == pass_pc = "idle" /\ pass_result = "error" /\ "request upstream" \in io_log
C13_Untouched ==
    /\ [](FetchFailed =>
            /\ io_log \cap FileWrites = {}
            /\ (cfg.incremental /\ cfg.output) =>
                 /\ KeysIn(load_records(records_file)) = DictKeys(hist_last)
                 /\ DOMAIN load_signatures(state_file) = DictKeys(hist_last))
    /\ [][(pass_pc = "fetch" /\ pass_result' = "error")
            => UNCHANGED <<file_vars, last_stats, last_refresh_ts>>]_vars
C13_Witness ==
    /\ FetchFailed
    /\ cfg.entry = "api" /\ cfg.incremental
    /\ last_refresh_ts = 2
    /\ Len(last_stats) = 1 /\ last_stats[1].created = 1
    /\ Len(records_file.data) = 1
    /\ DOMAIN load_signatures(state_file) = {"1"}
    /\ stac_file.exists /\ dcat_file.exists

\* C16 as stated: configuration error precedes the harvest. When the
\* command line asks for incremental mode without an output path, no login
\* or fetch request is sent upstream and no file is written.
C16_AsStated ==
    (cfg.entry = "cli" /\ cfg.incremental /\ ~cfg.output) =>
        /\ "request upstream" \notin io_log
        /\ io_log \cap FileWrites = {}

\* C15 as stated: malformed persisted state never crashes a harvest.
\* Whatever the records file and the state file hold, an incremental pass
\* whose fetch succeeded does not raise: it reconciles against what could
\* be loaded, a malformed file counting as empty.
C15_AsStated ==
    /\ pass_result # "raised"
    /\ (AfterReconcile /\ cfg.output /\ records_file.shape # "ok")
         => pass_stats.unchanged = 0

\* C17 as stated: location extraction. _extract_location returns a location
\* only when the first location entry carries a geometry of type Point
\* whose coordinates are a list of exactly two numbers [lon, lat], and then
\* returns lat = the second and lon = the first; for every other first
\* entry, and without any entry, it returns absence without raising; later
\* entries are never consulted.
PointPair(entry) ==
    /\ entry.is_dict
    /\ entry.location.is_dict
    /\ entry.location.type = "Point"
    /\ entry.location.coordinates.is_list
    /\ Len(entry.location.coordinates.items) = 2
    /\ \A i \in 1..2 : entry.location.coordinates.items[i].t \in {"int", "float"}
C17_AsStated ==
    loc_pc = "extracted" =>
        IF thing # <<>> /\ PointPair(thing[1])
        THEN location = Located(py_float(thing[1].location.coordinates.items[2]),
                                py_float(thing[1].location.coordinates.items[1]))
        ELSE location = Absent

\* C18: projector alignment. build_stac_item_collection and
\* build_dcat_catalog each emit one entry per record with a non-null
\* datastream_id and none for the others, in input order; the i-th feature
\* id and the i-th dataset @id are both "datastream-" followed by the
\* datastream_id; the geometry and the spatial block are present exactly
\* when the record has a location, with coordinates [lon, lat] in both.
NthKeyed(recs, p) == CHOOSE i \in KeyedIdx(recs) : Pos(recs, i) = p
HasLocation(record) ==
    /\ \E i \in 1..Len(record.d) : record.d[i].k = "location"
    /\ dict_get(record.d, "location") # None
Aligned(recs, features, datasets) ==
    /\ Len(features) = Cardinality(KeyedIdx(recs))
    /\ Len(datasets) = Cardinality(KeyedIdx(recs))
    /\ \A p \in 1..Len(features) :
         LET record == recs[NthKeyed(recs, p)]
             loc == dict_get(record.d, "location")
         IN /\ features[p].id = "datastream-" \o datastream_id_of(record).x
            /\ datasets[p].id = features[p].id
            /\ datasets[p].identifier = features[p].id
            /\ features[p].datastream_id = datastream_id_of(record)
            /\ IF HasLocation(record)
               THEN /\ features[p].geometry = Point(<<loc.lon, loc.lat>>)
                    /\ datasets[p].spatial = <<Point(<<loc.lon, loc.lat>>)>>
               ELSE /\ features[p].geometry = None
                    /\ datasets[p].spatial = <<>>
C18_Aligned == proj_pc = "projected" => Aligned(proj_records, stac, dcat)
C18_Witness ==
    /\ proj_pc = "projected"
    /\ Len(proj_records) = 2
    /\ ~HasKey(proj_records[1]) /\ HasLocation(proj_records[1])
    /\ HasKey(proj_records[2]) /\ HasLocation(proj_records[2])
    /\ Len(stac) = 1 /\ Len(dcat) = 1
    /\ stac[1].id = "datastream-2" /\ dcat[1].id = "datastream-2"
    /\ stac[1].geometry.coordinates = <<FloatVal("7.0"), FloatVal("46.5")>>
    /\ dcat[1].spatial[1].coordinates = <<FloatVal("7.0"), FloatVal("46.5")>>

\* C11: mutual exclusion of harvests. Whatever the number of threads calling
\* refresh_metadata, forced or not, at most one of them is between the start
\* of its fetch and the update of _LAST_REFRESH_TS, and it holds the lock.
C11_MutualExclusion ==
    /\ Cardinality({t \in Callers : api_pc[t] \in InPass}) <= 1
    /\ \A t \in Callers : api_pc[t] \in InPass => lock = t
C11_Witness ==
    \E t, u \in Callers :
        /\ t # u
        /\ api_pc[t] = "save_stac" /\ ~api_force[t]
        /\ api_pc[u] = "lock" /\ api_force[u]
        /\ lock = t
        /\ api_files.records = 2 /\ api_files.stac = 1

\* C12: double-checked staleness. A call that is not forced harvests only if
\* it found the cache stale after getting the lock: while the cache is
\* fresh no such call is between its fetch and its timestamp, and a call
\* that returned at line 72 or 77 was not forced and saw a fresh cache. So
\* of the callers that found the cache stale outside the lock, those that
\* get the lock after a completed pass, within the interval, return
\* without fetching or writing. A call that is not forced and finds the
\* cache fresh at the first check returns without touching the lock.
HarvestsOnlyWhenStale ==
    \A t \in Callers :
        /\ (api_pc[t] \in InPass /\ ~api_force[t]) => ~Fresh(clock)
        /\ api_ret[t] \in {72, 77} => ~api_force[t]
        /\ (api_ret[t] \in {72, 77} /\ api_pc[t] = "read") => Fresh(api_now[t])
FreshSkipsLock ==
    \A t \in Callers :
        (api_pc[t] = "idle" /\ api_pc'[t] # "idle" /\ ~api_force'[t] /\ Fresh(clock))
            => /\ api_pc'[t] = "read"
               /\ api_ret'[t] = 72
               /\ UNCHANGED <<lock, api_files, api_stats, last_refresh_ts>>
C12_DoubleChecked == []HarvestsOnlyWhenStale /\ [][FreshSkipsLock]_vars
C12_Witness ==
    \E t, u \in Callers :
        /\ t # u
        /\ api_pc[t] = "read" /\ api_ret[t] = 120 /\ ~api_force[t]
        /\ api_pc[u] = "read" /\ api_ret[u] = 77 /\ ~api_force[u]
        /\ harvests = 1
        /\ api_files = [records |-> 1, state |-> 1, stac |-> 1, dcat |-> 1]

\* C14: no stale data on failure. A request that arrives while the cache
\* was never refreshed or is older than the interval goes for the lock; a
\* request reads its file only after it found the cache fresh or refreshed
\* it itself; a request whose harvest attempt failed ends with the error
\* and reads no file; the failing step changes neither the timestamp nor
\* a file, so the timestamp is set only when a pass has completed.
ServesOnlyFresh ==
    \A t \in Callers :
        /\ api_pc[t] = "read" => (api_ret[t] \in {72, 77, 120} /\ Fresh(api_now[t]))
        /\ api_resp[t] = "ok" => api_ret[t] \in {72, 77, 120}
        /\ api_ret[t] = 85 => (api_pc[t] = "done" /\ api_resp[t] = "error")
        /\ last_refresh_ts # 0 => api_files.dcat # 0
StaleAttempts ==
    \A t \in Callers :
        /\ (api_pc[t] = "idle" /\ api_pc'[t] # "idle" /\ ~Fresh(clock))
             => api_pc'[t] = "lock"
        /\ (api_pc[t] = "fetch" /\ api_resp'[t] = "error")
             => UNCHANGED <<last_refresh_ts, api_files, api_stats>>
C14_NoStaleData == []ServesOnlyFresh /\ [][StaleAttempts]_vars
C14_Witness ==
    \E t, u \in Callers :
        /\ t # u
        /\ api_pc[t] = "done" /\ api_ret[t] = 85 /\ api_resp[t] = "error"
        /\ ~api_force[t]
        /\ api_files = [records |-> 1, state |-> 1, stac |-> 1, dcat |-> 1]
        /\ last_refresh_ts # 0 /\ ~Fresh(clock)
        /\ api_pc[u] = "fetch" /\ ~api_force[u]

\* the steps of a pass after _LAST_INCREMENTAL_STATS is set (line 100) and
\* before its last file is written (line 118)
Writing == {"save_records", "save_stac", "save_dcat"}

\* C23 as stated: stats match the served records. In every interleaving,
\* the step in which a /datasets request loads the records file and takes
\* _LAST_INCREMENTAL_STATS finds both set by one pass, and no pass is
\* between setting the stats and finishing its writes.
ReadsOnePass ==
    \A t \in Callers :
        (api_pc[t] = "read" /\ api_pc'[t] = "done")
            => /\ api_stats = api_files.records
               /\ \A u \in Callers : api_pc[u] \notin Writing
C23_AsStated == [][ReadsOnePass]_vars

\* a thread inside refresh_metadata: waiting at line 74 or in the block
InRefresh == {"lock"} \cup InPass

\* the lock is held only by a thread that is inside the locked block, so a
\* pass that failed there has released it
LockHeldInBlock == lock # 0 => api_pc[lock] \in InPass
\* every caller of refresh_metadata eventually returns
EveryCallerReturns ==
    \A t \in Callers :
        (api_pc[t] \in InRefresh) ~> (api_pc[t] \notin InRefresh)
\* a lock that does not pass a waiter over forever: a thread that finds the
\* lock free again and again acquires it
LockIsFair == \A t \in Callers : SF_vars(EnterLock(t))

\* C22 as stated: lock release and progress. A pass that fails inside the
\* locked block releases the lock, and with every upstream fetch returning
\* or failing every caller of refresh_metadata eventually returns and none
\* waits on the lock forever.
C22_AsStated == []LockHeldInBlock /\ EveryCallerReturns
\* C22 amended: a pass that fails inside the locked block releases the lock,
\* and with every upstream fetch returning or failing and a lock that does
\* not pass a waiter over forever, every caller eventually returns.
C22_FairLockProgress == []LockHeldInBlock /\ (LockIsFair => EveryCallerReturns)
\* a pass has failed in the block and a caller that waited has the lock
C22_Witness ==
    \E t, u \in Callers :
        /\ api_pc[u] = "done" /\ api_ret[u] = 85
        /\ api_pc[t] = "fetch" /\ lock = t

\* an incremental pass has run to completion and its records are persisted
PassCompleted ==
    /\ pass_pc = "idle" /\ pass_result = "ok"
    /\ cfg.incremental /\ cfg.output
\* the persisted records file holds, for every keyed record of the fetch,
\* a record of that key with the fetched field values, and the two catalog
\* files, where the pass writes them, are the projections of the fetch
ReflectsFetch ==
    LET recs == load_records(records_file)
    IN /\ \A i \in KeyedIdx(fetched) :
            \E j \in KeyedIdx(recs) :
                /\ KeyOf(recs[j]) = KeyOf(fetched[i])
                /\ recs[j].d = fetched[i].d
       /\ cfg.catalogs =>
            /\ stac_file = File(build_stac_item_collection(fetched))
            /\ dcat_file = File(build_dcat_catalog(fetched))

\* C21 as stated: a completed pass reflects its fetch. After any
\* incremental pass that runs to completion the persisted records hold the
\* fetched field values of every keyed record of its fetch, and the STAC
\* and DCAT outputs are their projections, for every earlier history,
\* including one in which a pass was interrupted after writing the state
\* file and before writing the records file.
C21_AsStated == PassCompleted => ReflectsFetch
\* C21 amended: the same, for every earlier history in which each pass
\* completed all its writes or failed before its first write.
C21_ReflectsFetch == (PassCompleted /\ ~hist_interrupted) => ReflectsFetch
\* a completed pass over a changed record, after completed and failed passes
C21_Witness ==
    /\ PassCompleted /\ ~hist_interrupted
    /\ ReflectsFetch
    /\ hist_before # {}
    /\ Len(fetched) = 1 /\ HasKey(fetched[1])
    /\ pass_stats.updated = 1

====
